---- MODULE Spec2Model ----
(***************************************************************************)
(* opencog/util/zipf.h: the two Zipf samplers, zipf_distribution           *)
(* (rejection-inversion) and zipf_table_distribution (precomputed table).  *)
(*                                                                         *)
(* RealType is modelled as a binary fixed-point format with FracBits       *)
(* fractional bits (the value v stands for v / 2^FracBits); every          *)
(* arithmetic operation rounds to the nearest representable value, as the  *)
(* IEEE double of the code does at 53 bits.  NaN is a value of the format. *)
(* IntType is an unsigned integer of IntBits bits.  std::mt19937 is a      *)
(* deterministic generator with RngMod states.                             *)
(***************************************************************************)
EXTENDS Integers, Sequences, FiniteSets, TLC

\* ------------------------------------------------------------------ bounds
FracBits == 10
IntBits == 2
RngMod == 8

\* --------------------------------------------------------------- RealType
Scale == 2 ^ FracBits
NaN == 0 - (2 ^ 30)
IsNaN(a) == a = NaN

\* a / b rounded to the nearest integer, ties away from zero (b # 0)
RoundDiv[a \in Int, b \in Int] ==
    LET aa == IF b < 0 THEN 0 - a ELSE a
        bb == IF b < 0 THEN 0 - b ELSE b
    IN  IF aa >= 0 THEN (2 * aa + bb) \div (2 * bb)
        ELSE 0 - ((2 * (0 - aa) + bb) \div (2 * bb))

FromInt[i \in Int] == i * Scale
One == Scale
Half == Scale \div 2
OnePointFive == (3 * Scale) \div 2

Neg[a \in Int] == IF IsNaN(a) THEN NaN ELSE 0 - a
Add[a \in Int, b \in Int] == IF IsNaN(a) \/ IsNaN(b) THEN NaN ELSE a + b
Sub[a \in Int, b \in Int] == IF IsNaN(a) \/ IsNaN(b) THEN NaN ELSE a - b
Mul[a \in Int, b \in Int] == IF IsNaN(a) \/ IsNaN(b) THEN NaN ELSE RoundDiv[a * b, Scale]
\* x / 0 is infinite or NaN in IEEE; no operation of the model divides by 0
\* with operands that are used afterwards, and the result is given as NaN
Div[a \in Int, b \in Int] == IF IsNaN(a) \/ IsNaN(b) \/ b = 0 THEN NaN ELSE RoundDiv[a * Scale, b]
\* a / i for a small integer constant i of the source (x/2.0, x/3.0, 1/3.0)
DivInt[a \in Int, i \in Int] == IF IsNaN(a) THEN NaN ELSE RoundDiv[a, i]

\* comparisons: every comparison with NaN is false
Less[a \in Int, b \in Int] == ~IsNaN(a) /\ ~IsNaN(b) /\ a < b
Leq[a \in Int, b \in Int] == ~IsNaN(a) /\ ~IsNaN(b) /\ a <= b
Geq[a \in Int, b \in Int] == Leq[b, a]
Greater[a \in Int, b \in Int] == Less[b, a]

\* std::abs(double)
Fabs[a \in Int] == IF IsNaN(a) THEN NaN ELSE IF a < 0 THEN 0 - a ELSE a

\* ln 2 in the format
Ln2 == RoundDiv[Scale * 69315, 100000]

\* 2 * atanh(z) by its series: log(m) for z = (m-1)/(m+1), m in [1,2)
LogSeries[z \in Int] ==
    LET z2 == Mul[z, z]
        t == Add[One, Mul[z2, Add[RoundDiv[One, 3],
                     Mul[z2, Add[RoundDiv[One, 5], Mul[z2, RoundDiv[One, 7]]]]]]]
    IN  2 * Mul[z, t]

\* log(m * 2^e) for m > 0, reducing m into [1,2)
LogNorm[m \in Int, e \in Int] ==
    IF m >= 2 * Scale THEN LogNorm[RoundDiv[m, 2], e + 1]
    ELSE IF m < Scale THEN LogNorm[2 * m, e - 1]
    ELSE Add[e * Ln2, LogSeries[Div[m - Scale, m + Scale]]]

\* std::log: NaN for a negative argument (log(0) = -inf is never computed)
Log[x \in Int] == IF IsNaN(x) \/ x <= 0 THEN NaN ELSE LogNorm[x, 0]

\* exp(r) for |r| <= ln(2)/2 by its Taylor series
ExpSeries[r \in Int] ==
    LET t5 == Add[One, RoundDiv[r, 5]]
        t4 == Add[One, Mul[RoundDiv[r, 4], t5]]
        t3 == Add[One, Mul[RoundDiv[r, 3], t4]]
        t2 == Add[One, Mul[RoundDiv[r, 2], t3]]
    IN  Add[One, Mul[r, t2]]

Scale2[v \in Int, k \in Int] == IF k >= 0 THEN v * (2 ^ k) ELSE RoundDiv[v, 2 ^ (0 - k)]

\* std::exp
Exp[y \in Int] ==
    IF IsNaN(y) THEN NaN
    ELSE LET k == RoundDiv[y, Ln2]
         IN  Scale2[ExpSeries[y - k * Ln2], k]

\* std::expm1, std::log1p
Expm1[x \in Int] == Sub[Exp[x], One]
Log1p[x \in Int] == Log[Add[One, x]]

IsInteger[y \in Int] == y % Scale = 0

IntPow[x \in Int, n \in Int] ==
    IF n = 0 THEN One
    ELSE IF n < 0 THEN Div[One, IntPow[x, 0 - n]]
    ELSE Mul[x, IntPow[x, n - 1]]

\* std::pow: pow(x, 0) is 1 for every x, NaN included; an integer exponent
\* is a product or a reciprocal (any sign of x); a negative base with a
\* non-integer exponent is NaN
Pow[x \in Int, y \in Int] ==
    IF IsNaN(y) THEN NaN
    ELSE IF y = 0 THEN One
    ELSE IF IsNaN(x) THEN NaN
    ELSE IF IsInteger[y] THEN IntPow[x, y \div Scale]
    ELSE IF x < 0 THEN NaN
    ELSE IF x = 0 THEN (IF y > 0 THEN 0 ELSE NaN)
    ELSE Exp[Mul[y, Log[x]]]

\* std::round (half away from zero), converted to an integer
Round[x \in Int] ==
    IF x >= 0 THEN (2 * x + Scale) \div (2 * Scale)
    ELSE 0 - ((2 * (0 - x) + Scale) \div (2 * Scale))

\* ------------------------------------------------------------------ IntType
IntModulus == 2 ^ IntBits
IntMax == IntModulus - 1
\* the number of RealType entries the memory holds: more than any table of
\* N + 1 entries with N an IntType value
MaxAlloc == 2 * IntModulus

\* ----------------------------------------------------------------- mt19937
\* the generator: a state, and the next state after one canonical value
RngStates == 0 .. (RngMod - 1)
\* a generator taken by value: the caller's generator does not advance
RngByValue(g) == g
RngNext(g) == (g + 1) % RngMod
\* generate_canonical: the value in [0, 1) the generator gives in state g
Canonical(g) == (g * Scale) \div RngMod

\* ------------------------------------------------------------- the inputs
SVals == {0 - Half, 0, Half, One, 2 * One}
QVals == {0 - ((9 * Scale) \div 4), 0 - Half, 0 - (Scale \div 4), 0, Half}
TableSVals == {0, One, 2 * One}
TableQVals == {0 - ((9 * Scale) \div 4), 0, Half}
Args(cls) ==
    IF cls = "zipf" THEN [n : 1 .. IntMax, s : SVals, q : QVals]
    ELSE [n : 1 .. IntMax, s : TableSVals, q : TableQVals]
Objs == {1, 2}
Callers == {1, 2}
NoValue == 0 - 1

VARIABLES
    kind,          \* which class the objects are of: "zipf" or "table"
    absTruncates,  \* the build: unqualified abs() is ::abs(int), not std::abs(double)
    arg,           \* the constructor arguments (n, s, q)
    zipf,          \* the zipf_distribution objects
    table,         \* the zipf_table_distribution objects
    uses,          \* the object each caller draws from
    rng,           \* each caller's own generator
    pc,            \* each caller: "idle", or "loop" inside operator()'s while loop
    start,         \* each caller: its generator's state when its last call began
    loc,           \* each caller: the locals u, x, k of its last loop iteration
    ret            \* each caller: the value its last call returned

vars == <<kind, absTruncates, arg, zipf, table, uses, rng, pc, start, loc, ret>>

\* ------------------------------------------------------- zipf_distribution
EpsilonNum == 2
EpsilonDen == 100000
\* a < epsilon, a > epsilon for a >= 0
LessEpsilon[a \in Int] == ~IsNaN(a) /\ a < Scale /\ a * EpsilonDen < EpsilonNum * Scale
GreaterEpsilon[a \in Int] == ~IsNaN(a) /\ (a >= Scale \/ a * EpsilonDen > EpsilonNum * Scale)

\* the unqualified abs(oms) of the constructor: std::abs(double) where the
\* including file brings it into scope, ::abs(int) of <stdlib.h> otherwise
Abs[a \in Int] == IF absTruncates THEN FromInt[Fabs[a] \div Scale] ELSE Fabs[a]

expxm1bx[x \in Int] ==
    IF GreaterEpsilon[Fabs[x]] THEN Div[Expm1[x], x]
    ELSE Add[One, Mul[DivInt[x, 2], Add[One, Mul[DivInt[x, 3], Add[One, DivInt[x, 4]]]]]]

log1pxbx[x \in Int] ==
    IF GreaterEpsilon[Fabs[x]] THEN Div[Log1p[x], x]
    ELSE Sub[One, Mul[x, Sub[DivInt[One, 2], Mul[x, Sub[DivInt[One, 3], Mul[x, DivInt[One, 4]]]]]]]

h(z, x) == Pow[Add[x, z._q], Neg[z._s]]

H(z, x) ==
    IF ~z.spole THEN Div[Pow[Add[x, z._q], z.oms], z.oms]
    ELSE LET log_xpq == Log[Add[x, z._q]]
         IN  Mul[log_xpq, expxm1bx[Mul[z.oms, log_xpq]]]

H_inv(z, y) ==
    IF ~z.spole THEN Sub[Pow[Mul[y, z.oms], z.rvs], z._q]
    ELSE Sub[Exp[Mul[y, log1pxbx[Mul[z.oms, y]]]], z._q]

\* the member initializers, in declaration order
ZipfMembers(n, s, q) ==
    LET oms == Sub[One, s]
        spole == LessEpsilon[Abs[oms]]
        rvs == IF spole THEN 0 ELSE Div[One, oms]
        z == [_s |-> s, _q |-> q, oms |-> oms, spole |-> spole, rvs |-> rvs]
        H_x1 == Sub[H(z, OnePointFive), h(z, One)]
        H_n == H(z, Add[FromInt[n], Half])
        cut == Sub[One, H_inv(z, Sub[H(z, OnePointFive), h(z, One)])]
    IN  [status |-> "ok", n |-> n, _s |-> s, _q |-> q, oms |-> oms, spole |-> spole,
         rvs |-> rvs, H_x1 |-> H_x1, H_n |-> H_n, cut |-> cut,
         dist |-> [a |-> H_x1, b |-> H_n]]

\* no object: before construction, and after a construction that failed
NoZipf(st) ==
    [status |-> st, n |-> 0, _s |-> 0, _q |-> 0, oms |-> 0, spole |-> FALSE, rvs |-> 0,
     H_x1 |-> 0, H_n |-> 0, cut |-> 0, dist |-> [a |-> 0, b |-> 0]]

\* the constructor body
ZipfBody(m) == IF Geq[0 - Half, m._q] THEN NoZipf("range_error") ELSE m

\* how the construction can end: dist(H_x1, H_n) requires H_x1 <= H_n, and
\* a build with library assertions aborts there when it does not hold
ZipfOutcomes(m) ==
    IF Leq[m.dist.a, m.dist.b] THEN {ZipfBody(m)}
    ELSE {NoZipf("abort"), ZipfBody(m)}

ZipfConstruct(o) ==
    /\ kind = "zipf"
    /\ zipf[o].status = "none"
    /\ \E z \in ZipfOutcomes(ZipfMembers(arg.n, arg.s, arg.q)) :
          zipf' = [zipf EXCEPT ![o] = z]
    /\ UNCHANGED <<kind, absTruncates, arg, table, uses, rng, pc, start, loc, ret>>

\* a reset() that drops the derived members
ZipfResetClears(o) ==
    /\ kind = "zipf"
    /\ zipf[o].status = "ok"
    /\ zipf' = [zipf EXCEPT ![o].cut = 0, ![o].dist = [a |-> 0, b |-> 0]]
    /\ UNCHANGED <<kind, absTruncates, arg, table, uses, rng, pc, start, loc, ret>>

ZipfReset(o) ==
    /\ kind = "zipf"
    /\ zipf[o].status = "ok"
    /\ UNCHANGED vars

\* uniform_real_distribution::operator()
DistDraw(d, g) == Add[Mul[Canonical(g), Sub[d.b, d.a]], d.a]

\* the first test with its comparison turned around
AcceptsFlipped(z, u, x, k) ==
    \/ Geq[Sub[FromInt[k], x], z.cut]
    \/ Geq[u, Sub[H(z, Add[FromInt[k], Half]), h(z, FromInt[k])]]
\* the two tests of the loop body
Accepts(z, u, x, k) ==
    \/ Leq[Sub[FromInt[k], x], z.cut]
    \/ Geq[u, Sub[H(z, Add[FromInt[k], Half]), h(z, FromInt[k])]]

\* one iteration of the while loop, with the generator in state g
Iteration(z, g) ==
    LET u == DistDraw(z.dist, g)
        x == H_inv(z, u)
        k == Round[x]
    IN  [u |-> u, x |-> x, k |-> k, accept |-> Accepts(z, u, x, k)]

\* one generator for all callers
RngShared(c) == 1
\* the generator a caller's draw reads and advances: the one it passed
RngOf(c) == c

\* an iteration that keeps the last u in the sampler's sampling range
ZipfIterateWrites(c) ==
    /\ kind = "zipf"
    /\ zipf[uses[c]].status = "ok"
    /\ LET r == RngOf(c)
           it == Iteration(zipf[uses[c]], rng[r])
       IN  /\ rng' = [rng EXCEPT ![r] = RngNext(rng[r])]
           /\ loc' = [loc EXCEPT ![c] = [u |-> it.u, x |-> it.x, k |-> it.k]]
           /\ start' = [start EXCEPT ![c] = IF pc[c] = "idle" THEN rng[c] ELSE start[c]]
           /\ pc' = [pc EXCEPT ![c] = IF it.accept THEN "idle" ELSE "loop"]
           /\ ret' = [ret EXCEPT ![c] = IF it.accept THEN it.k ELSE ret[c]]
           /\ zipf' = [zipf EXCEPT ![uses[c]].dist.a = it.u]
    /\ UNCHANGED <<kind, absTruncates, arg, table, uses>>

\* one iteration of operator()'s loop by caller c
ZipfIterate(c) ==
    /\ kind = "zipf"
    /\ zipf[uses[c]].status = "ok"
    /\ LET r == RngOf(c)
           it == Iteration(zipf[uses[c]], rng[r])
       IN  /\ rng' = [rng EXCEPT ![r] = RngNext(rng[r])]
           /\ loc' = [loc EXCEPT ![c] = [u |-> it.u, x |-> it.x, k |-> it.k]]
           /\ start' = [start EXCEPT ![c] = IF pc[c] = "idle" THEN rng[c] ELSE start[c]]
           /\ pc' = [pc EXCEPT ![c] = IF it.accept THEN "idle" ELSE "loop"]
           /\ ret' = [ret EXCEPT ![c] = IF it.accept THEN it.k ELSE ret[c]]
    /\ UNCHANGED <<kind, absTruncates, arg, zipf, table, uses>>

\* ------------------------------------------------- zipf_table_distribution
NoDist == [prob |-> <<>>, cp |-> <<>>]
NoTable(st) ==
    [status |-> st, _pdf |-> <<>>, reserved |-> 0, i |-> 0, _n |-> 0, _s |-> 0, _q |-> 0,
     _dist |-> NoDist]

RECURSIVE Accumulate(_, _)
Accumulate(w, j) == IF j = 0 THEN 0 ELSE Add[Accumulate(w, j - 1), w[j]]

\* discrete_distribution::param_type::_M_initialize
DiscreteInit(w) ==
    IF Len(w) < 2 THEN NoDist
    ELSE LET sum == Accumulate(w, Len(w))
             prob == [j \in 1 .. Len(w) |-> Div[w[j], sum]]
         IN  [prob |-> prob,
              cp |-> [j \in 1 .. Len(w) |->
                        IF j = Len(w) THEN One ELSE Accumulate(prob, j)]]

\* std::lower_bound over cp[first+1 .. first+len]: the count of leading
\* elements the binary search finds to be less than p
RECURSIVE LowerBound(_, _, _, _)
LowerBound(cp, p, first, len) ==
    IF len <= 0 THEN first
    ELSE LET half == len \div 2
             middle == first + half
         IN  IF Less[cp[middle + 1], p]
             THEN LowerBound(cp, p, middle + 1, len - half - 1)
             ELSE LowerBound(cp, p, first, half)

\* discrete_distribution::operator()
DiscreteDraw(d, g) ==
    IF Len(d.cp) = 0 THEN 0 ELSE LowerBound(d.cp, Canonical(g), 0, Len(d.cp))

\* init(): reserve, the sentinel, and the loop counter's first value
TableInitBegin(o) ==
    /\ kind = "table"
    /\ table[o].status = "none"
    /\ table' = [table EXCEPT ![o] =
                   [NoTable("init") EXCEPT !.reserved = (arg.n + 1) % IntModulus,
                                           !._pdf = <<0>>,
                                           !.i = 1]]
    /\ UNCHANGED <<kind, absTruncates, arg, zipf, uses, rng, pc, start, loc, ret>>

\* a weight without the deformation q
WeightUnshifted(q, s, i) == Pow[FromInt[i], Neg[s]]
\* the weight the loop stores for i
Weight(q, s, i) == Pow[Add[q, FromInt[i]], Neg[s]]

\* one iteration of init()'s loop; the vector throws when memory is exhausted
TableInitStep(o) ==
    /\ kind = "table"
    /\ table[o].status = "init"
    /\ table[o].i <= arg.n
    /\ IF Len(table[o]._pdf) >= MaxAlloc
       THEN table' = [table EXCEPT ![o] = NoTable("bad_alloc")]
       ELSE table' = [table EXCEPT
                        ![o]._pdf = Append(@, Weight(arg.q, arg.s, table[o].i)),
                        ![o].i = (@ + 1) % IntModulus]
    /\ UNCHANGED <<kind, absTruncates, arg, zipf, uses, rng, pc, start, loc, ret>>

\* how the rest of the construction can end: _M_initialize asserts sum > 0
\* in a build with library assertions
TableOutcomes(t) ==
    LET built == [t EXCEPT !.status = "ok", !._n = arg.n, !._s = arg.s, !._q = arg.q,
                           !._dist = DiscreteInit(t._pdf)]
    IN  IF Len(t._pdf) < 2 \/ Greater[Accumulate(t._pdf, Len(t._pdf)), 0]
        THEN {built}
        ELSE {NoTable("abort"), built}

\* the loop ends, init() returns n, and the remaining members are initialized
TableFinish(o) ==
    /\ kind = "table"
    /\ table[o].status = "init"
    /\ ~(table[o].i <= arg.n)
    /\ \E t \in TableOutcomes(table[o]) : table' = [table EXCEPT ![o] = t]
    /\ UNCHANGED <<kind, absTruncates, arg, zipf, uses, rng, pc, start, loc, ret>>

TableReset(o) ==
    /\ kind = "table"
    /\ table[o].status = "ok"
    /\ UNCHANGED vars

TableDraw(c) ==
    /\ kind = "table"
    /\ table[uses[c]].status = "ok"
    /\ LET r == RngOf(c)
       IN  /\ rng' = [rng EXCEPT ![r] = RngNext(rng[r])]
           /\ ret' = [ret EXCEPT ![c] = DiscreteDraw(table[uses[c]]._dist, rng[r])]
           /\ start' = [start EXCEPT ![c] = rng[c]]
    /\ UNCHANGED <<kind, absTruncates, arg, zipf, table, uses, pc, loc>>

\* ---------------------------------------------------------------- accessors
s(z) == z._s
q(z) == z._q
min(z) == 1
max(z) == z.n
table_max(t) == t._n

\* ------------------------------------------------------------ specification
NoLocals == [u |-> 0, x |-> 0, k |-> 0]

Init ==
    /\ kind \in {"zipf", "table"}
    /\ absTruncates \in (IF kind = "zipf" THEN BOOLEAN ELSE {FALSE})
    /\ arg \in Args(kind)
    /\ zipf = [o \in Objs |-> NoZipf("none")]
    /\ table = [o \in Objs |-> NoTable("none")]
    /\ uses \in {f \in [Callers -> Objs] : f[1] = 1}
    /\ rng \in {[c \in Callers |-> g] : g \in RngStates}
    /\ pc = [c \in Callers |-> "idle"]
    /\ start = rng
    /\ loc = [c \in Callers |-> NoLocals]
    /\ ret = [c \in Callers |-> NoValue]

\* the objects the program constructs: those a caller draws from
Used == {uses[c] : c \in Callers}

Next ==
    \/ \E o \in Used : ZipfConstruct(o)
    \/ \E o \in Objs : ZipfReset(o)
    \/ \E c \in Callers : ZipfIterate(c)
    \/ \E o \in Used : TableInitBegin(o)
    \/ \E o \in Objs : TableInitStep(o)
    \/ \E o \in Objs : TableFinish(o)
    \/ \E o \in Objs : TableReset(o)
    \/ \E c \in Callers : TableDraw(c)

Spec == Init /\ [][Next]_vars

\* a caller inside operator()'s loop keeps running
FairSpec ==
    Spec /\ \A c \in Callers : WF_vars(pc[c] = "loop" /\ ZipfIterate(c))

\* --------------------------------------------------------------- properties
Returned(c) == ret[c] # NoValue

\* C1: every value a zipf_distribution draw returns lies in [1, N]
ZipfDrawInRange ==
    \A c \in Callers :
        (kind = "zipf" /\ Returned(c)) =>
            (min(zipf[uses[c]]) <= ret[c] /\ ret[c] <= max(zipf[uses[c]]))

\* C2: every value a zipf_table_distribution draw returns lies in [1, N];
\* index 0 of the table is never returned (stated for q > -0.5)
TableDrawInRange ==
    \A c \in Callers :
        (kind = "table" /\ Greater[arg.q, 0 - Half] /\ Returned(c)) =>
            (1 <= ret[c] /\ ret[c] <= table_max(table[uses[c]]))

\* C3: the construction of a zipf_distribution ends in the range error when
\* q <= -0.5 and ends successfully when q > -0.5, for every N and s
ConstructionOutcome ==
    \A o \in Objs :
        (kind = "zipf" /\ zipf[o].status # "none") =>
            IF Leq[arg.q, 0 - Half] THEN zipf[o].status = "range_error"
            ELSE zipf[o].status = "ok"

\* the object of caller c
ObjOf(c) == IF kind = "zipf" THEN zipf[uses[c]] ELSE table[uses[c]]

\* C4: two samplers of the same kind with the same (N, s, q), each drawn from
\* with a generator in the same state, return the same value and leave the
\* two generators in the same state
Deterministic ==
    (/\ uses[1] # uses[2]
     /\ \A c \in Callers : pc[c] = "idle" /\ Returned(c)
     /\ start[1] = start[2])
        => (ret[1] = ret[2] /\ rng[1] = rng[2])

DeterministicWitness ==
    /\ kind = "zipf" /\ uses[1] # uses[2]
    /\ \A c \in Callers : pc[c] = "idle" /\ Returned(c)
    /\ start[1] = start[2]
    /\ rng[1] # RngNext(start[1])

\* a step of caller c's call
CallerMoved(c) ==
    pc'[c] # pc[c] \/ ret'[c] # ret[c] \/ loc'[c] # loc[c] \/ start'[c] # start[c]

\* what a step leaves alone
FrameStep ==
    /\ \A o \in Objs :
          zipf[o].status = "ok" =>
              /\ zipf'[o] = zipf[o]
              /\ s(zipf'[o]) = arg.s /\ q(zipf'[o]) = arg.q
              /\ min(zipf'[o]) = 1 /\ max(zipf'[o]) = arg.n
    /\ \A o \in Objs :
          table[o].status = "ok" =>
              /\ table'[o] = table[o]
              /\ s(table'[o]) = arg.s /\ q(table'[o]) = arg.q
              /\ min(table'[o]) = 1 /\ table_max(table'[o]) = arg.n
    /\ \A c \in Callers :
          CallerMoved(c) => \A d \in Callers \ {c} : rng'[d] = rng[d]
\* C5: no step changes a constructed sampler: its members keep their
\* construction-time values, s(), q(), min(), max() give s, q, 1 and N,
\* reset() changes nothing, and a caller's draw changes no generator but
\* that caller's
FrameEffect == [][FrameStep]_vars

FrameEffectWitness ==
    /\ kind = "zipf" /\ uses[1] = uses[2]
    /\ zipf[1].status = "ok" /\ zipf[1].cut # 0
    /\ \A c \in Callers : Returned(c) /\ rng[c] # start[c]
    /\ pc[2] = "loop"

\* the call of caller c run alone: the value it returns and the state it
\* leaves the generator in, from the generator state g
RECURSIVE SoloDraw(_, _, _)
SoloDraw(z, g, fuel) ==
    IF kind = "table" THEN [ret |-> DiscreteDraw(z._dist, g), rng |-> RngNext(g)]
    ELSE LET it == Iteration(z, g)
         IN  IF it.accept \/ fuel = 0 THEN [ret |-> it.k, rng |-> RngNext(g)]
             ELSE SoloDraw(z, RngNext(g), fuel - 1)

\* C6: callers that share one sampler and draw with their own generators
\* each get the value, and the generator state, of the same call run alone
SharedAsAlone ==
    \A c \in Callers :
        (uses[1] = uses[2] /\ pc[c] = "idle" /\ Returned(c)) =>
            LET alone == SoloDraw(ObjOf(c), start[c], RngMod)
            IN  ret[c] = alone.ret /\ rng[c] = alone.rng

SharedAsAloneWitness ==
    /\ kind = "zipf" /\ uses[1] = uses[2]
    /\ pc[1] = "loop"
    /\ pc[2] = "idle" /\ Returned(2) /\ rng[2] # RngNext(start[2])

\* what a step of a caller's draw does
IterationStep ==
    \A c \in Callers :
        (kind = "zipf" /\ CallerMoved(c)) =>
            LET z == zipf[uses[c]]
                l == loc'[c]
                fast == Leq[Sub[FromInt[l.k], l.x], z.cut]
                squeeze == Geq[l.u, Sub[H(z, Add[FromInt[l.k], Half]), h(z, FromInt[l.k])]]
            IN  /\ rng'[c] = RngNext(rng[c])
                /\ Leq[z.H_x1, l.u] /\ Leq[l.u, z.H_n]
                /\ l.x = H_inv(z, l.u)
                /\ l.k = Round[l.x]
                /\ IF fast \/ squeeze
                   THEN pc'[c] = "idle" /\ ret'[c] = l.k
                   ELSE pc'[c] = "loop" /\ ret'[c] = ret[c]
\* C7: an iteration takes one new u of [H_x1, H_n], x = H_inv(u) and
\* k = round(x); it returns k exactly when k - x <= cut or
\* u >= H(k + 0.5) - h(k), and otherwise returns nothing and loops
IterationContract == [][IterationStep]_vars

IterationContractWitness ==
    \E c \in Callers :
        /\ kind = "zipf" /\ pc[c] = "idle" /\ Returned(c)
        /\ Greater[Sub[FromInt[loc[c].k], loc[c].x], zipf[uses[c]].cut]
        /\ ret[c] = loc[c].k

LoopNeverWraps ==
    \A o \in Objs :
        (kind = "table" /\ table[o].status # "none") =>
            /\ table[o].status \in {"init", "ok", "abort"}
            /\ table[o].status = "init" =>
                  /\ table[o].reserved = arg.n + 1
                  /\ 1 <= table[o].i /\ table[o].i <= arg.n + 1
                  /\ Len(table[o]._pdf) = table[o].i
====
